---- MODULE Spec2Model ----
(***************************************************************************)
(* Model of JobQueue (src/JobQueue.ts): an in-process asynchronous job      *)
(* queue with a concurrency limit, a per-minute rate limit and a per-job    *)
(* timeout.                                                                 *)
(*                                                                          *)
(* Execution model (single-threaded event loop):                            *)
(*   - every action is one synchronous run of code;                         *)
(*   - `microtasks` is the FIFO queue of promise continuations;             *)
(*   - timer callbacks (setTimeout) run only when the microtask queue is    *)
(*     empty and never before their deadline; the clock does not pass a     *)
(*     pending deadline before the callback has run;                        *)
(*   - callers (schedule, dispose) and task bodies (settlement of the       *)
(*     promise returned by fn) may act at any point between two runs.       *)
(***************************************************************************)
EXTENDS Integers, Sequences, FiniteSets, TLC

\* ---------------------------------------------------------------- bounds
MaxJobs == 3
MaxConcurrency == 2
MaxRate == 2
TicksPerWindow == 3
MaxTimeoutTicks == 1
MaxIdleTicks == 1
MaxDisposeCalls == 2
MaxOptionValue == 2

\* ------------------------------------------------------ program constants
RateWindow == 60000
MsPerSecond == 1000
Infinity == 2147483647
DefaultConcurrencyLimit == 1000
DefaultTimeoutLimit == 1200

TickStep == RateWindow \div TicksPerWindow
MaxIdleTime == MaxIdleTicks * TickStep

JobIds == 1..MaxJobs

\* options.timeoutLimit, in seconds
TimeoutOptions == {k * (TickStep \div MsPerSecond) : k \in 1..MaxTimeoutTicks}

DisposedError == "Queue has been disposed"
TimeoutError == "Job timed out"
TaskError == "task error"

VARIABLES
    options,            \* the constructor's argument; a missing key is undefined
    constructorResult,  \* "pending", "ok" or the message of the error thrown
    concurrencyLimit,   \* readonly config
    rateLimit,          \* readonly config (Infinity when not provided)
    timeoutLimit,       \* readonly config, milliseconds
    activeJobs,
    queue,              \* pending entries (job ids), front at index 1
    isDisposed,
    jobStartTimes,
    jobs,               \* per-job closure state, promise state and history
    microtasks,         \* FIFO of pending promise continuations
    clock,              \* Date.now()
    nextId,             \* id the next accepted schedule call will get
    dequeueOrder,       \* history: ids in the order they left `queue`
    rejectOrder,        \* history: ids in the order dispose() rejected them
    callResult,         \* outcome of the most recent schedule call
    disposeCalls        \* history: number of dispose() calls

vars == <<options, constructorResult, concurrencyLimit, rateLimit, timeoutLimit, activeJobs, queue,
          isDisposed, jobStartTimes, jobs, microtasks, clock, nextId,
          dequeueOrder, rejectOrder, callResult, disposeCalls>>

config == <<options, constructorResult, concurrencyLimit, rateLimit, timeoutLimit>>

\* ---------------------------------------------------------------- helpers
Min(a, b) == IF a <= b THEN a ELSE b

NewJob ==
    [phase |-> "unsubmitted",
     queueStartTime |-> 0, dequeuedAt |-> 0,
     rlNow |-> 0, wakeAt |-> 0,
     startTime |-> 0, deadline |-> 0, timer |-> "none",
     body |-> "notstarted",
     race |-> "none", racedAt |-> 0,
     outcome |-> "pending", settleCalls |-> 0, settledAt |-> 0,
     queueTime |-> 0, executionTime |-> 0]

\* The mutable state the queue's methods read and write, as one record.
Cur ==
    [activeJobs |-> activeJobs, queue |-> queue, isDisposed |-> isDisposed,
     jobStartTimes |-> jobStartTimes, jobs |-> jobs,
     microtasks |-> microtasks, dequeueOrder |-> dequeueOrder,
     rejectOrder |-> rejectOrder]

Install(s) ==
    /\ activeJobs' = s.activeJobs
    /\ queue' = s.queue
    /\ isDisposed' = s.isDisposed
    /\ jobStartTimes' = s.jobStartTimes
    /\ jobs' = s.jobs
    /\ microtasks' = s.microtasks
    /\ dequeueOrder' = s.dequeueOrder
    /\ rejectOrder' = s.rejectOrder

\* Promise settlement: a call of resolve/reject; only the first one decides.
SettleFuture(s, j, result, now) ==
    [s EXCEPT
        !.jobs[j].settleCalls = @ + 1,
        !.jobs[j].outcome = IF @ = "pending" THEN result ELSE @,
        !.jobs[j].settledAt = IF s.jobs[j].outcome = "pending" THEN now ELSE @]

\* ------------------------------------------------------- enforceRateLimit
\* Variant: the wait is computed with the wrong sign, 60000 + (now - oldest).
EnforceRateLimitSignError(s, j, now) ==
    IF rateLimit = Infinity
    THEN [s EXCEPT !.jobs[j].phase = "admitted",
                   !.microtasks = Append(@, [job |-> j, kind |-> "executeJob"])]
    ELSE LET pruned == SelectSeq(s.jobStartTimes, LAMBDA t : now - t < RateWindow)
         IN  IF Len(pruned) >= rateLimit
             THEN [s EXCEPT !.jobStartTimes = pruned,
                            !.jobs[j].phase = "ratewait",
                            !.jobs[j].rlNow = now,
                            !.jobs[j].wakeAt = now + (RateWindow + (now - pruned[1]))]
             ELSE [s EXCEPT !.jobStartTimes = Append(pruned, now),
                            !.jobs[j].phase = "admitted",
                            !.jobs[j].rlNow = now,
                            !.microtasks = Append(@, [job |-> j, kind |-> "executeJob"])]

\* Synchronous part of enforceRateLimit for job j, called from job().
EnforceRateLimit(s, j, now) ==
    IF rateLimit = Infinity
    THEN [s EXCEPT !.jobs[j].phase = "admitted",
                   !.microtasks = Append(@, [job |-> j, kind |-> "executeJob"])]
    ELSE LET pruned == SelectSeq(s.jobStartTimes, LAMBDA t : now - t < RateWindow)
             mustWait == /\ Len(pruned) >= rateLimit
                         /\ RateWindow - (now - pruned[1]) > 0
         IN  IF mustWait
             THEN [s EXCEPT !.jobStartTimes = pruned,
                            !.jobs[j].phase = "ratewait",
                            !.jobs[j].rlNow = now,
                            !.jobs[j].wakeAt = now + (RateWindow - (now - pruned[1]))]
             ELSE [s EXCEPT !.jobStartTimes = Append(pruned, now),
                            !.jobs[j].phase = "admitted",
                            !.jobs[j].rlNow = now,
                            !.microtasks = Append(@, [job |-> j, kind |-> "executeJob"])]

\* Rest of enforceRateLimit after the wait: pushes the `now` read before it.
AfterRateWait(s, j) ==
    [s EXCEPT !.jobStartTimes = Append(@, s.jobs[j].rlNow),
              !.jobs[j].phase = "admitted",
              !.microtasks = Append(@, [job |-> j, kind |-> "executeJob"])]

\* --------------------------------------------------------- processNextJob
\* Variant: the concurrency gate is not consulted.
ProcessNextJobNoGate(s, now) ==
    IF Len(s.queue) = 0
    THEN s
    ELSE LET next == Head(s.queue)
         IN  EnforceRateLimit(
                [s EXCEPT !.queue = Tail(@),
                          !.activeJobs = @ + 1,
                          !.dequeueOrder = Append(@, next),
                          !.jobs[next].dequeuedAt = now],
                next, now)

\* Variant: the gate compares with > instead of >=.
ProcessNextJobOffByOne(s, now) ==
    IF Len(s.queue) = 0 \/ s.activeJobs > concurrencyLimit
    THEN s
    ELSE LET next == Head(s.queue)
         IN  EnforceRateLimit(
                [s EXCEPT !.queue = Tail(@),
                          !.activeJobs = @ + 1,
                          !.dequeueOrder = Append(@, next),
                          !.jobs[next].dequeuedAt = now],
                next, now)

\* Variant: the entry is taken from the back (pop) instead of the front (shift).
ProcessNextJobPop(s, now) ==
    IF Len(s.queue) = 0 \/ s.activeJobs >= concurrencyLimit
    THEN s
    ELSE LET next == s.queue[Len(s.queue)]
         IN  EnforceRateLimit(
                [s EXCEPT !.queue = SubSeq(@, 1, Len(@) - 1),
                          !.activeJobs = @ + 1,
                          !.dequeueOrder = Append(@, next),
                          !.jobs[next].dequeuedAt = now],
                next, now)

ProcessNextJob(s, now) ==
    IF Len(s.queue) = 0 \/ s.activeJobs >= concurrencyLimit
    THEN s
    ELSE LET next == Head(s.queue)
         IN  EnforceRateLimit(
                [s EXCEPT !.queue = Tail(@),
                          !.activeJobs = @ + 1,
                          !.dequeueOrder = Append(@, next),
                          !.jobs[next].dequeuedAt = now],
                next, now)

\* ------------------------------------------------------ executeWithTimeout
\* Variant: the timer is armed with the limit in seconds, not milliseconds.
ExecuteWithTimeoutInSeconds(s, j, now) ==
    [s EXCEPT !.jobs[j].body = "running",
              !.jobs[j].timer = "pending",
              !.jobs[j].deadline = now + (timeoutLimit \div MsPerSecond),
              !.jobs[j].phase = "running"]

\* Variant: the timeout is counted from the schedule call, not from the start
\* of the body.
ExecuteWithTimeoutFromSubmission(s, j, now) ==
    [s EXCEPT !.jobs[j].body = "running",
              !.jobs[j].timer = "pending",
              !.jobs[j].deadline = s.jobs[j].queueStartTime + timeoutLimit,
              !.jobs[j].phase = "running"]

\* fn(...args) is invoked and the timer is armed; the race is undecided.
ExecuteWithTimeout(s, j, now) ==
    [s EXCEPT !.jobs[j].body = "running",
              !.jobs[j].timer = "pending",
              !.jobs[j].deadline = now + timeoutLimit,
              !.jobs[j].phase = "running"]

\* ------------------------------------------------------------- executeJob
\* executeJob up to its await.
ExecuteJobStart(s, j, now) ==
    ExecuteWithTimeout(
        [s EXCEPT !.jobs[j].startTime = now,
                  !.jobs[j].queueTime = now - s.jobs[j].queueStartTime],
        j, now)

\* Variant: the finally block releases the slot but does not dispatch again.
ExecuteJobFinishNoDispatch(s, j, now) ==
    LET r == s.jobs[j].race
        settled ==
            SettleFuture(s, j,
                         IF r = "value" THEN "resolved"
                         ELSE IF r = "timeout" THEN TimeoutError ELSE TaskError,
                         now)
    IN  [settled EXCEPT !.activeJobs = @ - 1,
                        !.jobs[j].phase = "settled"]

\* Variant: the finally block dispatches again but does not release the slot.
ExecuteJobFinishNoRelease(s, j, now) ==
    LET r == s.jobs[j].race
        settled ==
            SettleFuture(s, j,
                         IF r = "value" THEN "resolved"
                         ELSE IF r = "timeout" THEN TimeoutError ELSE TaskError,
                         now)
    IN  ProcessNextJob([settled EXCEPT !.jobs[j].phase = "settled"], now)

\* Variant: the catch block rejects with a new error instead of the caught one.
ExecuteJobFinishWrapsError(s, j, now) ==
    LET r == s.jobs[j].race
        settled ==
            SettleFuture(s, j,
                         IF r = "value" THEN "resolved" ELSE "Job execution failed",
                         now)
    IN  ProcessNextJob([settled EXCEPT !.activeJobs = @ - 1,
                                       !.jobs[j].phase = "settled"],
                       now)

\* executeJob after its await: try / catch / finally.
ExecuteJobFinish(s, j, now) ==
    LET r == s.jobs[j].race
        settled ==
            IF r = "value"
            THEN SettleFuture([s EXCEPT !.jobs[j].executionTime =
                                            now - s.jobs[j].startTime],
                              j, "resolved", now)
            ELSE SettleFuture(s, j,
                              IF r = "timeout" THEN TimeoutError ELSE TaskError,
                              now)
    IN  ProcessNextJob([settled EXCEPT !.activeJobs = @ - 1,
                                       !.jobs[j].phase = "settled"],
                       now)

\* -------------------------------------------------------------- schedule
\* Variant: schedule enqueues the entry but does not attempt a dispatch.
ScheduleAcceptedNoDispatch(s, j, now) ==
    [s EXCEPT !.queue = Append(@, j),
              !.jobs[j].phase = "queued",
              !.jobs[j].queueStartTime = now]

ScheduleAccepted(s, j, now) ==
    ProcessNextJob([s EXCEPT !.queue = Append(@, j),
                             !.jobs[j].phase = "queued",
                             !.jobs[j].queueStartTime = now],
                   now)

\* --------------------------------------------------------------- dispose
RECURSIVE RejectAll(_, _)
RejectAll(s, now) ==
    IF Len(s.queue) > 0
    THEN LET job == Head(s.queue)
         IN  RejectAll(SettleFuture([s EXCEPT !.queue = Tail(@),
                                              !.dequeueOrder = Append(@, job),
                                              !.rejectOrder = Append(@, job),
                                              !.jobs[job].phase = "settled"],
                                    job, DisposedError, now),
                       now)
    ELSE s

\* Variant: dispose also rejects the entries that were already dequeued.
DisposeRejectsDequeued(s, now) ==
    LET drained == RejectAll([s EXCEPT !.isDisposed = TRUE], now)
        inFlight == {j \in JobIds : s.jobs[j].phase \in
                        {"ratewait", "admitted", "running", "raced"}}
    IN  [drained EXCEPT !.jobs = [j \in JobIds |->
            IF j \in inFlight
            THEN [drained.jobs[j] EXCEPT !.settleCalls = @ + 1,
                                         !.outcome = IF @ = "pending"
                                                     THEN DisposedError ELSE @,
                                         !.settledAt = now]
            ELSE drained.jobs[j]]]

\* Variant: dispose toggles the flag instead of setting it.
DisposeTogglesFlag(s, now) ==
    RejectAll([s EXCEPT !.isDisposed = ~@], now)

\* Variant: dispose empties the queue without rejecting its entries.
DisposeDropsEntries(s, now) ==
    [s EXCEPT !.isDisposed = TRUE, !.queue = <<>>]

DisposeQueue(s, now) ==
    RejectAll([s EXCEPT !.isDisposed = TRUE], now)

\* ------------------------------------------------------------------ timers
PendingDeadlines ==
    {jobs[j].wakeAt : j \in {i \in JobIds : jobs[i].phase = "ratewait"}}
    \cup {jobs[j].deadline : j \in {i \in JobIds : jobs[i].timer = "pending"}}

\* ------------------------------------------------------------ constructor
OptionKeys == {"concurrencyLimit", "rateLimit", "timeoutLimit"}

\* Variant: the validation rejects negative values only.
ConstructorErrorNegativeOnly(o) ==
    IF "concurrencyLimit" \in DOMAIN o /\ o.concurrencyLimit < 0
    THEN "concurrencyLimit must be greater than 0"
    ELSE IF "rateLimit" \in DOMAIN o /\ o.rateLimit < 0
    THEN "rateLimit must be greater than 0"
    ELSE IF "timeoutLimit" \in DOMAIN o /\ o.timeoutLimit < 0
    THEN "timeoutLimit must be greater than 0"
    ELSE "none"

\* The validation: the message of the error thrown, "none" when none is.
ConstructorError(o) ==
    IF "concurrencyLimit" \in DOMAIN o /\ o.concurrencyLimit <= 0
    THEN "concurrencyLimit must be greater than 0"
    ELSE IF "rateLimit" \in DOMAIN o /\ o.rateLimit <= 0
    THEN "rateLimit must be greater than 0"
    ELSE IF "timeoutLimit" \in DOMAIN o /\ o.timeoutLimit <= 0
    THEN "timeoutLimit must be greater than 0"
    ELSE "none"

\* The readonly fields the constructor assigns (the ?? defaults).
Constructor(o) ==
    [error |-> ConstructorError(o),
     concurrencyLimit |-> IF "concurrencyLimit" \in DOMAIN o
                          THEN o.concurrencyLimit ELSE DefaultConcurrencyLimit,
     rateLimit |-> IF "rateLimit" \in DOMAIN o THEN o.rateLimit ELSE Infinity,
     timeoutLimit |-> (IF "timeoutLimit" \in DOMAIN o
                       THEN o.timeoutLimit ELSE DefaultTimeoutLimit) * MsPerSecond]

\* Field initialisers (activeJobs = 0, queue = [], ...) and the idle runtime.
FreshFields ==
    /\ activeJobs = 0
    /\ queue = <<>>
    /\ isDisposed = FALSE
    /\ jobStartTimes = <<>>
    /\ jobs = [j \in JobIds |-> NewJob]
    /\ microtasks = <<>>
    /\ clock = 0
    /\ nextId = 1
    /\ dequeueOrder = <<>>
    /\ rejectOrder = <<>>
    /\ callResult = "none"
    /\ disposeCalls = 0

\* Options of the queues whose behaviour is explored: small limits, the rate
\* limit given or left out.
InitOptions ==
    {[concurrencyLimit |-> c, timeoutLimit |-> t] :
        c \in 1..MaxConcurrency, t \in TimeoutOptions}
    \cup {[concurrencyLimit |-> c, rateLimit |-> r, timeoutLimit |-> t] :
            c \in 1..MaxConcurrency, r \in 1..MaxRate, t \in TimeoutOptions}

\* Every options object over small values, any subset of the keys given.
AllOptions ==
    UNION {[keys -> (0 - 1)..MaxOptionValue] : keys \in SUBSET OptionKeys}

\* ------------------------------------------------------------------- Init
\* The state after a successful `new JobQueue(options)`.
Init ==
    /\ options \in InitOptions
    /\ Constructor(options).error = "none"
    /\ constructorResult = "ok"
    /\ concurrencyLimit = Constructor(options).concurrencyLimit
    /\ rateLimit = Constructor(options).rateLimit
    /\ timeoutLimit = Constructor(options).timeoutLimit
    /\ activeJobs = 0
    /\ queue = <<>>
    /\ isDisposed = FALSE
    /\ jobStartTimes = <<>>
    /\ jobs = [j \in JobIds |-> NewJob]
    /\ microtasks = <<>>
    /\ clock = 0
    /\ nextId = 1
    /\ dequeueOrder = <<>>
    /\ rejectOrder = <<>>
    /\ callResult = "none"
    /\ disposeCalls = 0

\* ---------------------------------------------------------------- actions
\* Variant: schedule does not look at the disposal flag.
ScheduleIgnoresDisposed ==
    /\ nextId <= MaxJobs
    /\ Install(ScheduleAccepted(Cur, nextId, clock))
    /\ nextId' = nextId + 1
    /\ callResult' = "accepted"
    /\ UNCHANGED <<config, clock, disposeCalls>>

\* A caller invokes schedule(fn, ...args).
Schedule ==
    /\ nextId <= MaxJobs
    /\ IF isDisposed
       THEN /\ callResult' = DisposedError
            /\ UNCHANGED <<activeJobs, queue, isDisposed, jobStartTimes, jobs,
                           microtasks, dequeueOrder, rejectOrder, nextId>>
       ELSE /\ Install(ScheduleAccepted(Cur, nextId, clock))
            /\ nextId' = nextId + 1
            /\ callResult' = "accepted"
    /\ UNCHANGED <<config, clock, disposeCalls>>

\* A caller invokes dispose().
Dispose ==
    /\ disposeCalls < MaxDisposeCalls
    /\ Install(DisposeQueue(Cur, clock))
    /\ disposeCalls' = disposeCalls + 1
    /\ UNCHANGED <<config, clock, nextId, callResult>>

\* The event loop runs the oldest pending continuation.
RunMicrotask ==
    /\ microtasks # <<>>
    /\ LET m == Head(microtasks)
           s == [Cur EXCEPT !.microtasks = Tail(@)]
       IN  IF m.kind = "executeJob"
           THEN Install(ExecuteJobStart(s, m.job, clock))
           ELSE Install(ExecuteJobFinish(s, m.job, clock))
    /\ UNCHANGED <<config, clock, nextId, callResult, disposeCalls>>

\* The rate limiter's setTimeout(resolve, waitTime) fires for job j.
RateTimerFire(j) ==
    /\ microtasks = <<>>
    /\ jobs[j].phase = "ratewait"
    /\ jobs[j].wakeAt <= clock
    /\ Install(AfterRateWait(Cur, j))
    /\ UNCHANGED <<config, clock, nextId, callResult, disposeCalls>>

\* Variant: every settlement of the body resumes executeJob, the race lost or
\* not.
BodySettleAlwaysResumes(j, how) ==
    /\ jobs[j].body = "running"
    /\ LET won == jobs[j].race = "none"
       IN  jobs' = [jobs EXCEPT
                ![j].body = how,
                ![j].racedAt = IF won THEN clock ELSE @,
                ![j].race = IF won
                            THEN (IF how = "resolved" THEN "value" ELSE "error")
                            ELSE @,
                ![j].phase = IF won THEN "raced" ELSE @]
    /\ microtasks' = Append(microtasks, [job |-> j, kind |-> "continuation"])
    /\ UNCHANGED <<config, activeJobs, queue, isDisposed, jobStartTimes, clock,
                   nextId, dequeueOrder, rejectOrder, callResult, disposeCalls>>

\* The promise returned by fn(...args) of job j settles (value or error).
BodySettle(j, how) ==
    /\ jobs[j].body = "running"
    /\ LET won == jobs[j].race = "none"
       IN  jobs' = [jobs EXCEPT
                ![j].body = how,
                ![j].racedAt = IF won THEN clock ELSE @,
                ![j].race = IF won
                            THEN (IF how = "resolved" THEN "value" ELSE "error")
                            ELSE @,
                ![j].phase = IF won THEN "raced" ELSE @]
    /\ microtasks' = IF jobs[j].race = "none"
                     THEN Append(microtasks, [job |-> j, kind |-> "continuation"])
                     ELSE microtasks
    /\ UNCHANGED <<config, activeJobs, queue, isDisposed, jobStartTimes, clock,
                   nextId, dequeueOrder, rejectOrder, callResult, disposeCalls>>

\* The timeout timer of job j fires: timeoutReject(new Error('Job timed out')).
TimeoutFire(j) ==
    /\ microtasks = <<>>
    /\ jobs[j].timer = "pending"
    /\ jobs[j].deadline <= clock
    /\ LET won == jobs[j].race = "none"
       IN  jobs' = [jobs EXCEPT
                ![j].timer = "fired",
                ![j].racedAt = IF won THEN clock ELSE @,
                ![j].race = IF won THEN "timeout" ELSE @,
                ![j].phase = IF won THEN "raced" ELSE @]
    /\ microtasks' = IF jobs[j].race = "none"
                     THEN Append(microtasks, [job |-> j, kind |-> "continuation"])
                     ELSE microtasks
    /\ UNCHANGED <<config, activeJobs, queue, isDisposed, jobStartTimes, clock,
                   nextId, dequeueOrder, rejectOrder, callResult, disposeCalls>>

\* Time passes, up to the next pending timer deadline.
Tick ==
    /\ microtasks = <<>>
    /\ \A d \in PendingDeadlines : d > clock
    /\ \/ clock < MaxIdleTime
       \/ PendingDeadlines # {}
    /\ clock' = IF PendingDeadlines = {}
                THEN clock + TickStep
                ELSE LET nearest == CHOOSE d \in PendingDeadlines :
                                        \A e \in PendingDeadlines : d <= e
                     IN  Min(clock + TickStep, nearest)
    /\ UNCHANGED <<config, activeJobs, queue, isDisposed, jobStartTimes, jobs,
                   microtasks, nextId, dequeueOrder, rejectOrder, callResult,
                   disposeCalls>>

\* `new JobQueue(options)` runs: it throws or assigns the readonly fields.
Construct ==
    /\ constructorResult = "pending"
    /\ LET q == Constructor(options)
       IN  IF q.error = "none"
           THEN /\ constructorResult' = "ok"
                /\ concurrencyLimit' = q.concurrencyLimit
                /\ rateLimit' = q.rateLimit
                /\ timeoutLimit' = q.timeoutLimit
           ELSE /\ constructorResult' = q.error
                /\ UNCHANGED <<concurrencyLimit, rateLimit, timeoutLimit>>
    /\ UNCHANGED <<options, activeJobs, queue, isDisposed, jobStartTimes, jobs,
                   microtasks, clock, nextId, dequeueOrder, rejectOrder,
                   callResult, disposeCalls>>

\* Before the constructor body has run: any options, fields not yet assigned.
CtorInit ==
    /\ options \in AllOptions
    /\ constructorResult = "pending"
    /\ concurrencyLimit = 0
    /\ rateLimit = 0
    /\ timeoutLimit = 0
    /\ FreshFields

CtorSpec == CtorInit /\ [][Construct]_vars

Next ==
    \/ Schedule
    \/ Dispose
    \/ RunMicrotask
    \/ \E j \in JobIds : RateTimerFire(j)
    \/ \E j \in JobIds, how \in {"resolved", "rejected"} : BodySettle(j, how)
    \/ \E j \in JobIds : TimeoutFire(j)
    \/ Tick

Spec == Init /\ [][Next]_vars

\* One turn of the event loop: a continuation, a due timer, or time passing.
EventLoop ==
    \/ RunMicrotask
    \/ \E j \in JobIds : RateTimerFire(j)
    \/ \E j \in JobIds : TimeoutFire(j)
    \/ Tick

\* The event loop keeps turning while it has something to do: continuations
\* run, time passes and due timers fire. Nothing is assumed of the callers
\* or of the task bodies.
LiveSpec == Spec /\ WF_vars(EventLoop)

\* ------------------------------------------------------------------ claims
Started(j) == jobs[j].body # "notstarted"
Settled(j) == jobs[j].outcome # "pending"
Accepted(j) == jobs[j].phase # "unsubmitted"

\* C1: in every reachable state 0 <= active() <= concurrencyLimit.
C1_ActiveWithinLimit ==
    /\ 0 <= activeJobs
    /\ activeJobs <= concurrencyLimit

\* C1 witness: the gate is full and an entry is kept waiting behind it, after
\* at least one earlier job has already settled and released its slot.
C1_Witness ==
    /\ activeJobs = concurrencyLimit
    /\ Len(queue) > 0
    /\ \E j \in JobIds : jobs[j].phase = "settled" /\ Started(j)

\* C2 (as claimed): with rateLimit = R, at most R task bodies begin in any
\* interval of 60000 ms.
C2_StartsPerWindow ==
    rateLimit # Infinity =>
        \A j \in JobIds : Started(j) =>
            Cardinality({i \in JobIds :
                            /\ Started(i)
                            /\ jobs[i].startTime <= jobs[j].startTime
                            /\ jobs[j].startTime - jobs[i].startTime < RateWindow})
                <= rateLimit

\* C3: entries leave the pending queue in submission order: what has been
\* dequeued so far (by dispatch or dispose), followed by what is still
\* queued, is exactly the sequence of accepted jobs in submission order.
C3_FifoDequeue ==
    dequeueOrder \o queue = [i \in 1..(nextId - 1) |-> i]

\* C3 witness: a later entry was dequeued while an earlier dequeued job is
\* still suspended in its rate-limit wait.
C3_Witness ==
    \E j \in JobIds :
        /\ jobs[j].phase = "ratewait"
        /\ Len(dequeueOrder) > j

\* C4: resolve/reject is called at most once for every job, a job is settled
\* iff that one call happened, and a settled outcome never changes.
C4_SettledOnce ==
    [][\A j \in JobIds :
          /\ jobs'[j].settleCalls <= 1
          /\ Settled(j) <=> jobs[j].settleCalls >= 1
          /\ Settled(j) => jobs'[j].outcome = jobs[j].outcome]_vars

\* C4 witness: a job rejected by timeout whose body settled later, next to a
\* job rejected by dispose; each was settled by one call.
C4_Witness ==
    \E j, k \in JobIds :
        /\ jobs[j].outcome = TimeoutError
        /\ jobs[j].body \in {"resolved", "rejected"}
        /\ jobs[j].settleCalls = 1
        /\ jobs[k].outcome = DisposedError
        /\ jobs[k].settleCalls = 1

\* C5: every accepted job is eventually settled, given only that timers fire
\* and continuations run; no assumption is made on task bodies finishing.
\* Settlement is permanent (C4), so this is: again and again, every job
\* accepted so far is settled.
C5_EventuallySettled ==
    []<>(\A j \in JobIds : Accepted(j) => Settled(j))

\* C5 witness: a job that had to wait for a slot and whose body never
\* finished has been settled (by the timeout).
C5_Witness ==
    \E j \in JobIds :
        /\ jobs[j].dequeuedAt > jobs[j].queueStartTime
        /\ jobs[j].body = "running"
        /\ jobs[j].outcome = TimeoutError

\* C6 (as claimed): the number of task functions invoked and not yet finished
\* never exceeds concurrencyLimit.
C6_RunningBodiesWithinLimit ==
    Cardinality({j \in JobIds : jobs[j].body = "running"}) <= concurrencyLimit

\* C6 (amended): the number of task functions invoked whose job is not yet
\* settled never exceeds concurrencyLimit; a body that lost the race against
\* its timeout keeps running and is no longer counted.
C6_UnsettledBodiesWithinLimit ==
    Cardinality({j \in JobIds : Started(j) /\ ~Settled(j)}) <= concurrencyLimit

\* C6 witness: a timed-out body is still running while concurrencyLimit other
\* bodies have been invoked and are unsettled.
C6_Witness ==
    /\ \E j \in JobIds : jobs[j].outcome = TimeoutError /\ jobs[j].body = "running"
    /\ Cardinality({j \in JobIds : Started(j) /\ ~Settled(j)}) = concurrencyLimit

\* C7: dispose() sets the flag, rejects every queued entry with 'Queue has
\* been disposed' front to back and leaves the queue empty; no entry rejected
\* that way has its task body started, then or later.
C7_DisposeRejectsQueued ==
    /\ [](\A i \in 1..Len(rejectOrder) :
             /\ jobs[rejectOrder[i]].outcome = DisposedError
             /\ ~Started(rejectOrder[i]))
    /\ [][Dispose =>
             /\ isDisposed'
             /\ Len(queue') = 0
             /\ rejectOrder' = rejectOrder \o queue
             /\ \A i \in 1..Len(queue) : jobs'[queue[i]].outcome = DisposedError]_vars

\* C7 witness: dispose() found two entries queued behind running jobs and
\* one of the running jobs has since settled.
C7_Witness ==
    /\ isDisposed
    /\ Len(rejectOrder) >= 2
    /\ \E j \in JobIds : Started(j) /\ Settled(j)

\* C8: once disposed, always disposed and the queue stays empty; a schedule
\* call then fails with the disposed error and changes nothing else.
C8_DisposedIsTerminal ==
    [][isDisposed =>
          /\ isDisposed'
          /\ Len(queue) = 0
          /\ Len(queue') = 0
          /\ Schedule =>
                /\ callResult' = DisposedError
                /\ UNCHANGED <<queue, activeJobs, jobStartTimes, jobs,
                               microtasks, nextId>>]_vars

\* C8 witness: a schedule call was refused while a job dequeued before the
\* disposal is still active.
C8_Witness ==
    /\ isDisposed
    /\ callResult = DisposedError
    /\ activeJobs > 0

\* The body's own outcome, as delivered to the future.
OwnOutcome(j) == IF jobs[j].race = "value" THEN "resolved" ELSE TaskError

\* C9: with the deadline at startTime + timeoutLimit: a job whose body has
\* not settled once the deadline has passed is rejected with 'Job timed out',
\* and never earlier than the deadline; a body that settles strictly before
\* the deadline wins the race and the future gets the body's own outcome.
C9_TimeoutRace ==
    /\ [](\A j \in JobIds : Started(j) =>
            LET deadline == jobs[j].startTime + timeoutLimit
            IN  /\ (clock > deadline /\ jobs[j].race \notin {"value", "error"})
                      => jobs[j].outcome = TimeoutError
                /\ jobs[j].outcome = TimeoutError
                      => jobs[j].settledAt >= deadline /\ jobs[j].race = "timeout"
                /\ (jobs[j].race \in {"value", "error"} /\ Settled(j))
                      => jobs[j].outcome = OwnOutcome(j))
    /\ [][\A j \in JobIds :
            (/\ jobs[j].body = "running"
             /\ jobs'[j].body \in {"resolved", "rejected"}
             /\ clock < jobs[j].startTime + timeoutLimit)
            => jobs'[j].race = (IF jobs'[j].body = "resolved"
                                THEN "value" ELSE "error")]_vars

\* C9 witness: one job settled with its body's outcome before its deadline,
\* another was rejected by the timeout.
C9_Witness ==
    \E j, k \in JobIds :
        /\ jobs[j].outcome = "resolved"
        /\ jobs[j].settledAt < jobs[j].startTime + timeoutLimit
        /\ jobs[k].outcome = TimeoutError

\* C10 (as claimed): once a job is settled with its body's outcome, no
\* timeout timer of that job is pending.
C10_TimerCancelled ==
    \A j \in JobIds :
        (Settled(j) /\ jobs[j].race \in {"value", "error"})
            => jobs[j].timer # "pending"

\* C11: when a task fails before its timeout, the future is rejected with the
\* task's own error; the slot is released and, when an entry is pending, the
\* front entry is dispatched in the same step.
C11_TaskErrorPropagates ==
    [][\A j \in JobIds :
          (jobs[j].race = "error" /\ ~Settled(j) /\ jobs'[j].outcome # "pending")
          => /\ jobs'[j].outcome = TaskError
             /\ jobs'[j].settledAt <= jobs[j].startTime + timeoutLimit
             /\ IF Len(queue) > 0
                THEN /\ queue' = Tail(queue)
                     /\ activeJobs' = activeJobs
                     /\ jobs'[Head(queue)].phase \in {"admitted", "ratewait"}
                ELSE activeJobs' = activeJobs - 1]_vars

\* C11 witness: a job was rejected with its task's error and the entry that
\* was waiting behind it was dequeued at that moment and has started.
C11_Witness ==
    \E j, k \in JobIds :
        /\ jobs[j].outcome = TaskError
        /\ jobs[k].queueStartTime < jobs[k].dequeuedAt
        /\ jobs[k].dequeuedAt = jobs[j].settledAt
        /\ Started(k)

\* C12 (as claimed): for every job that resolves, the reported queue time is
\* (time the entry was dequeued - time schedule was called) and is >= 0.
C12_QueueTimeIsDequeueDelay ==
    \A j \in JobIds :
        jobs[j].outcome = "resolved" =>
            /\ jobs[j].queueTime = jobs[j].dequeuedAt - jobs[j].queueStartTime
            /\ jobs[j].queueTime >= 0

Max(a, b) == IF a >= b THEN a ELSE b

\* C13: with no rate limit, while none of the N jobs submitted so far has
\* settled, active() = min(N, C) and size() = max(0, N - C); and whenever a
\* running job settles while entries are pending, size() drops by exactly one
\* and active() is C again.
C13_FillThenRefill ==
    /\ []((rateLimit = Infinity /\ \A j \in JobIds : ~Settled(j)) =>
            /\ activeJobs = Min(nextId - 1, concurrencyLimit)
            /\ Len(queue) = Max(0, (nextId - 1) - concurrencyLimit))
    /\ [][\A j \in JobIds :
            (/\ rateLimit = Infinity
             /\ Started(j) /\ ~Settled(j) /\ jobs'[j].outcome # "pending"
             /\ Len(queue) > 0)
            => /\ Len(queue') = Len(queue) - 1
               /\ activeJobs' = concurrencyLimit]_vars

\* C13 witness: without a rate limit, MaxJobs jobs were submitted before any
\* settled, the last one had to queue, and it was dequeued when a running job
\* settled.
C13_Witness ==
    /\ rateLimit = Infinity
    /\ \A j \in JobIds : jobs[j].queueStartTime = 0 /\ Accepted(j)
    /\ jobs[MaxJobs].dequeuedAt > 0
    /\ \E j \in JobIds : Started(j) /\ jobs[j].settledAt = jobs[MaxJobs].dequeuedAt
                         /\ Settled(j)
    /\ activeJobs = concurrencyLimit

\* C14: the constructor throws exactly when some provided limit is <= 0;
\* otherwise each limit is the provided value or its default (1000 jobs, no
\* rate limit, 1200 seconds) and the queue starts empty, idle, not disposed.
C14_ConstructorValidates ==
    constructorResult # "pending" =>
        /\ constructorResult # "ok" <=> \E k \in DOMAIN options : options[k] <= 0
        /\ constructorResult = "ok" =>
            /\ concurrencyLimit = IF "concurrencyLimit" \in DOMAIN options
                                  THEN options.concurrencyLimit ELSE 1000
            /\ rateLimit = IF "rateLimit" \in DOMAIN options
                           THEN options.rateLimit ELSE Infinity
            /\ timeoutLimit = 1000 * (IF "timeoutLimit" \in DOMAIN options
                                      THEN options.timeoutLimit ELSE 1200)
            /\ Len(queue) = 0
            /\ activeJobs = 0
            /\ ~isDisposed

\* C14 witness: a construction that succeeded with one limit given and the
\* two others defaulted.
C14_Witness ==
    /\ constructorResult = "ok"
    /\ DOMAIN options = {"concurrencyLimit"}
    /\ rateLimit = Infinity
    /\ timeoutLimit = 1200000

\* C15: with finitely many submissions (at most MaxJobs here), eventually
\* size() = 0 and active() = 0 and both stay 0 from then on.
C15_EventuallyIdle ==
    <>[](Len(queue) = 0 /\ activeJobs = 0)

\* C15 witness: the queue is idle again after a success, a task failure and a
\* timeout, and dispose() has been called.
C15_Witness ==
    /\ Len(queue) = 0
    /\ activeJobs = 0
    /\ isDisposed
    /\ \E i, j, k \in JobIds :
          /\ jobs[i].outcome = "resolved"
          /\ jobs[j].outcome = TaskError
          /\ jobs[k].outcome = TimeoutError

\* C16 (as claimed): between runs of the event loop's continuations, active()
\* is the number of jobs whose task body has been started and whose future is
\* not yet settled; a job waiting in the rate limiter is not counted.
C16_ActiveCountsStartedBodies ==
    microtasks = <<>> =>
        activeJobs = Cardinality({j \in JobIds : Started(j) /\ ~Settled(j)})

\* C17 (as claimed): while the most recently dequeued job is suspended in its
\* rate-limit wait, no step dispatches a later entry from the pending queue.
C17_WaitBlocksDequeue ==
    [][(/\ Len(dequeueOrder) > 0
        /\ jobs[dequeueOrder[Len(dequeueOrder)]].phase = "ratewait"
        /\ rejectOrder' = rejectOrder)
       => dequeueOrder' = dequeueOrder]_vars

\* C18 (as claimed): task bodies begin in submission order: a job's body has
\* begun only if the body of every job submitted before it has begun.
C18_BodiesStartInOrder ==
    \A a, b \in JobIds :
        (a < b /\ Accepted(a) /\ Started(b)) => Started(a)

\* C19 (as claimed): the timestamp a job appends after a rate-limit wait is
\* the time at which the wait ended.
C19_AppendsWaitEndTime ==
    [][\A j \in JobIds :
          (jobs[j].phase = "ratewait" /\ jobs'[j].phase = "admitted")
          => /\ Len(jobStartTimes') > 0
             /\ jobStartTimes'[Len(jobStartTimes')] = clock']_vars

\* C20 (as claimed): immediately after a timestamp is appended, the window
\* holds at most rateLimit timestamps within the trailing 60000 ms.
C20_WindowWithinRate ==
    [][(rateLimit # Infinity /\ Len(jobStartTimes') > 0
          /\ jobStartTimes' # jobStartTimes)
       => Cardinality({i \in 1..Len(jobStartTimes') :
                          clock' - jobStartTimes'[i] < RateWindow}) <= rateLimit]_vars

\* C21: in every state between two runs of the queue's code, no entry is
\* pending while a slot is free: one dispatch attempt per schedule call and
\* per settlement keeps the free capacity used.
C21_NoIdleCapacity ==
    Len(queue) > 0 => activeJobs >= concurrencyLimit

\* C21 witness: a settlement released a slot and its one dispatch attempt
\* refilled it, with a further entry still pending behind the full gate.
C21_Witness ==
    /\ Len(queue) > 0
    /\ activeJobs = concurrencyLimit
    /\ Len(dequeueOrder) > concurrencyLimit
    /\ \E j \in JobIds : Started(j) /\ Settled(j) /\ jobs[j].settledAt = clock

\* Jobs taken off the pending queue by a dispatch (not by dispose).
Dispatched(j) ==
    jobs[j].phase \in {"ratewait", "admitted", "running", "raced", "settled"}
    /\ \A i \in 1..Len(rejectOrder) : rejectOrder[i] # j

\* C22: the rate limiter only delays, and by at most 60000 ms: a dispatched
\* job's body starts no later than 60000 ms after its dequeue, a job still
\* held by the limiter has been held no longer than that and is unsettled,
\* and no dispatched job is ever rejected with anything but its task's error
\* or the timeout, both decided after its body started.
C22_RateLimiterOnlyDelays ==
    \A j \in JobIds : Dispatched(j) =>
        /\ Started(j) => jobs[j].startTime - jobs[j].dequeuedAt <= RateWindow
        /\ ~Started(j) => /\ clock - jobs[j].dequeuedAt <= RateWindow
                          /\ ~Settled(j)
        /\ jobs[j].phase = "ratewait"
              => jobs[j].wakeAt - jobs[j].dequeuedAt <= RateWindow
        /\ jobs[j].outcome \in {"pending", "resolved", TaskError, TimeoutError}

\* C22 witness: a job was held by the rate limiter for the full 60000 ms,
\* then ran and resolved.
C22_Witness ==
    \E j \in JobIds :
        /\ jobs[j].startTime - jobs[j].dequeuedAt = RateWindow
        /\ jobs[j].outcome = "resolved"

\* The outcome the race of job j decided: the task's value, its error or the
\* timeout.
NaturalOutcome(j) ==
    IF jobs[j].race = "value" THEN "resolved"
    ELSE IF jobs[j].race = "error" THEN TaskError ELSE TimeoutError

\* C23: dispose() leaves every dispatched job untouched: the call changes
\* neither active() nor any state of a job that was dequeued by a dispatch
\* (its timers and pending continuations included); such a job is never
\* settled with the disposed error but with the outcome of its own race,
\* and it does get settled after the disposal.
C23_DisposeSparesDequeued ==
    /\ [](\A j \in JobIds : Dispatched(j) =>
            /\ jobs[j].outcome # DisposedError
            /\ Settled(j) => jobs[j].outcome = NaturalOutcome(j))
    /\ [][Dispose =>
            /\ activeJobs' = activeJobs
            /\ jobStartTimes' = jobStartTimes
            /\ microtasks' = microtasks
            /\ \A j \in JobIds : Dispatched(j) => jobs'[j] = jobs[j]]_vars
    /\ []<>(isDisposed => \A j \in JobIds : Dispatched(j) => Settled(j))

\* C23 witness: dispose() rejected a queued entry while an earlier job was
\* still held by the rate limiter; that job started afterwards and resolved.
C23_Witness ==
    \E j, k \in JobIds :
        /\ jobs[k].outcome = DisposedError
        /\ Dispatched(j)
        /\ jobs[j].dequeuedAt <= jobs[k].settledAt
        /\ jobs[j].startTime > jobs[k].settledAt
        /\ jobs[j].outcome = "resolved"

\* C24: dispose() on an already-disposed queue changes nothing: the flag
\* stays true, the pending queue stays empty, active(), the start-timestamp
\* window, every job's state and the pending continuations are unchanged.
C24_DisposeIdempotent ==
    [][(Dispose /\ isDisposed) =>
          /\ isDisposed'
          /\ Len(queue) = 0
          /\ UNCHANGED <<queue, activeJobs, jobStartTimes, jobs, microtasks,
                         dequeueOrder, rejectOrder>>]_vars

\* C24 witness: dispose() was called a second time while a job dequeued
\* before the first call was still active, the first call having rejected
\* an entry.
C24_Witness ==
    /\ disposeCalls = 2
    /\ isDisposed
    /\ activeJobs > 0
    /\ Len(rejectOrder) > 0

\* C25: once the timeout has won a job's race, the settlement of its task
\* (value or error) changes nothing but the task's own state: the future's
\* outcome and its number of settle calls, active(), the pending queue, the
\* start-timestamp window, the pending continuations and every other job
\* stay as they are; and the slot of a dispatched job is released exactly
\* once, at its settlement.
C25_LateSettlementIgnored ==
    /\ [](activeJobs =
            Cardinality({j \in JobIds : Dispatched(j) /\ jobs[j].phase # "settled"}))
    /\ [][\A j \in JobIds :
            (/\ jobs[j].race = "timeout"
             /\ jobs[j].body = "running"
             /\ jobs'[j].body # "running")
            => /\ jobs'[j] = [jobs[j] EXCEPT !.body = jobs'[j].body]
               /\ jobs[j].outcome = TimeoutError => jobs'[j].outcome = TimeoutError
               /\ \A k \in JobIds \ {j} : jobs'[k] = jobs[k]
               /\ UNCHANGED <<activeJobs, queue, jobStartTimes, microtasks,
                              isDisposed, dequeueOrder>>]_vars

\* C25 witness: a task failed after its job had been rejected by the
\* timeout, while another entry was pending behind a full gate.
C25_Witness ==
    \E j \in JobIds :
        /\ jobs[j].outcome = TimeoutError
        /\ jobs[j].body = "rejected"
        /\ Len(queue) > 0
        /\ activeJobs = concurrencyLimit

\* The three places an accepted job can be in.
Pending == {queue[i] : i \in 1..Len(queue)}
InFlight == {j \in JobIds : Accepted(j) /\ j \notin Pending /\ ~Settled(j)}
Done == {j \in JobIds : Settled(j)}

\* C26: job conservation: every accepted job is in exactly one of the pending
\* queue, the dequeued-and-unsettled jobs and the settled jobs; size() counts
\* the first, active() the second, and accepted = size() + active() +
\* settled.
C26_JobConservation ==
    /\ \A j \in JobIds : Accepted(j) <=> j < nextId
    /\ \A j \in Pending : Accepted(j) /\ ~Settled(j)
    /\ \A j \in Done : Accepted(j)
    /\ Len(queue) = Cardinality(Pending)
    /\ activeJobs = Cardinality(InFlight)
    /\ nextId - 1 = Len(queue) + activeJobs + Cardinality(Done)

\* C26 witness: the three places are occupied at once: a job timed out, a
\* job is held by the rate limiter and an entry is pending.
C26_Witness ==
    /\ \E j \in Done : jobs[j].outcome = TimeoutError
    /\ \E j \in InFlight : jobs[j].phase = "ratewait"
    /\ Len(queue) > 0

\* C27: the timeout clock of a job starts when its task body is invoked: no
\* timer exists for a job whose body has not started, an armed timer's
\* deadline is the start of the body plus timeoutLimit, and a job rejected
\* with the timeout error had its body started at least timeoutLimit before,
\* however long it was pending or held by the rate limiter.
C27_TimeoutCountsFromStart ==
    \A j \in JobIds :
        /\ ~Started(j) => /\ jobs[j].timer = "none"
                          /\ jobs[j].outcome # TimeoutError
        /\ Started(j) => /\ jobs[j].timer # "none"
                         /\ jobs[j].startTime >= jobs[j].dequeuedAt
                         /\ jobs[j].dequeuedAt >= jobs[j].queueStartTime
                         /\ jobs[j].deadline = jobs[j].startTime + timeoutLimit
        /\ jobs[j].timer = "fired" => clock >= jobs[j].startTime + timeoutLimit
        /\ jobs[j].outcome = TimeoutError
              => jobs[j].settledAt >= jobs[j].startTime + timeoutLimit

\* C27 witness: a job spent longer than timeoutLimit pending and in the rate
\* limiter, then started and was rejected by the timeout exactly timeoutLimit
\* after its start.
C27_Witness ==
    \E j \in JobIds :
        /\ jobs[j].startTime - jobs[j].queueStartTime > timeoutLimit
        /\ jobs[j].startTime > jobs[j].dequeuedAt
        /\ jobs[j].outcome = TimeoutError
        /\ jobs[j].settledAt = jobs[j].startTime + timeoutLimit

====
